---- MODULE Spec2Model ----
(***************************************************************************)
(* The post store of the Prins social tracker (database.py): the posts     *)
(* table with its UNIQUE(platform, page, date, text) constraint, the       *)
(* follower_snapshots table, the uploads log, the operations insert_posts,  *)
(* update_post_labels, save_follower_snapshot and log_upload, and the      *)
(* cached readers get_posts, get_monthly_stats, get_follower_count and     *)
(* get_follower_previous_month.                                            *)
(*                                                                         *)
(* insert_posts is modelled statement by statement: every SQL statement    *)
(* the loop body sends to the store is one atomic step.  A date string is  *)
(* a record [ym, rest] of its first seven characters and the remainder,    *)
(* so that date[:7] is the field ym.  engagement_rate is kept in           *)
(* hundredths of a percent (round(er, 2) * 100).  Python's None and a      *)
(* missing dict key are the value None for numbers and the empty string    *)
(* for page and date; created_at, post_id, type and source_file are        *)
(* written once and never read by the store and are left out of the rows.  *)
(***************************************************************************)
EXTENDS Integers, Sequences, FiniteSets, TLC

VARIABLES
    useTurso,    \* _USE_TURSO: remote (Turso) branch or local SQLite branch
    posts,       \* committed rows of the posts table, in id order
    snapshots,   \* follower_snapshots: the set of rows [key = (platform, page, month), followers]
    dbLock,      \* local SQLite only: caller holding the write lock, 0 if free
    txn,         \* local SQLite only: posts table as seen inside the open transaction
    calls,       \* per caller: the frame of its insert_posts call
    obs,         \* per caller: keys its current call tried / created (observation only)
    trial,       \* two-batch experiments: the drawn inputs, the mirrored store, the results
    cache,       \* st.cache_data of the four readers: arguments -> cached result
    uploads,     \* number of rows of the uploads log
    now,         \* the current calendar month, datetime.now(timezone.utc).strftime("%Y-%m")
    ret          \* the last reader call since the last insert_posts call began
                 \* (of the ledger also the last save): name, arguments, returned
                 \* value; or the exception the last insert_posts call ended by

vars == <<useTurso, posts, snapshots, dbLock, txn, calls, obs, trial, cache, uploads, now, ret>>

----------------------------------------------------------------------------
(* Bounds *)

MaxRows == 2      \* rows the posts table may hold
MaxSnaps == 2     \* keys the follower_snapshots table may hold
MaxBatch == 2     \* posts one insert_posts call may be given
MaxUploads == 1   \* rows the uploads log may hold

----------------------------------------------------------------------------
(* Input universe *)

None == -1        \* Python None / absent key, for numeric fields
NoPage == ""      \* falsy page (None or "")
NoDate == [ym |-> "", rest |-> ""]   \* falsy date (None or "")

Callers == {1, 2}
Platforms == {"facebook", "instagram"}
Followers == {1000, 2000}
Labels == {<<"", "">>, <<"Puppies", "Voorjaar">>}   \* <<theme, campaign>>

FebDate == [ym |-> "2026-02", rest |-> "-10T14:30:00"]
MarDate == [ym |-> "2026-03", rest |-> "-05T09:00:00"]

\* created_time as the Graph API sends it and sync_history.py stores it
ApiDate == [ym |-> "2026-02", rest |-> "-12T08:00:00+0000"]

\* likes/comments/shares/clicks/views as one source reports them together
Profiles ==
    { [likes |-> 10, comments |-> 5, shares |-> 2, clicks |-> 100, views |-> None],
      [likes |-> 3,  comments |-> 1, shares |-> 4, clicks |-> 7,   views |-> 900] }

CsvProfile == CHOOSE pr \in Profiles : pr.views = None

MkPost(page, date, text, prof, reach) ==
    [page |-> page, date |-> date, text |-> text, reach |-> reach,
     views |-> prof.views, likes |-> prof.likes, comments |-> prof.comments,
     shares |-> prof.shares, clicks |-> prof.clicks]

NoPost == MkPost(NoPage, NoDate, "", CsvProfile, None)

\* One publication reported many times with different metrics, and a second
\* publication next to it: the universe of the merge and derivation properties.
MergeUniverse ==
    [platforms |-> {"facebook"},
     pageArgs  |-> {NoPage},
     feed      |-> { MkPost("prins", FebDate, "a", pr, r) :
                        pr \in Profiles, r \in {None, 0, 500, 800} }
                   \cup { MkPost("prins", FebDate, "b", CsvProfile, 500) },
     snapKeys  |-> { <<"facebook", "prins", "2026-02">>, <<"facebook", "prins", "2026-03">> },
     followers |-> Followers,
     labels    |-> Labels]

\* Many publications with the same metrics, some without page or date: the
\* universe of the key, skip and count properties.
KeyUniverse ==
    [platforms |-> Platforms,
     pageArgs  |-> {NoPage, "edupet"},
     feed      |-> { MkPost(pg, d, "a", CsvProfile, 500) :
                        pg \in {NoPage, "prins"}, d \in {NoDate, FebDate} },
     snapKeys  |-> { <<"facebook", "prins", "2026-02">> },
     followers |-> {1000},
     labels    |-> {<<"Puppies", "Voorjaar">>}]

----------------------------------------------------------------------------
(* Pure helpers of insert_posts *)

\* `x or 0`
OrZero(v) == IF v = None THEN 0 ELSE v

\* `p.get("page") or page`
PostPage(p, page) == IF p.page # NoPage THEN p.page ELSE page

\* variant: only the date guard
SkipPostDateOnly(p, page) == p.date = NoDate

\* the two `continue` guards at the head of the loop body
SkipPost(p, page) == p.date = NoDate \/ PostPage(p, page) = NoPage

\* `p.get("date", "")[:7]`
PostMonth(p) == p.date.ym

CacheKey(platform, p, page) == <<platform, PostPage(p, page), PostMonth(p)>>

\* variant: shares forgotten
EngagementWithoutShares(likes, comments, shares) == likes + comments

Engagement(likes, comments, shares) == likes + comments + shares

\* round(n / d) to the nearest integer, ties to even
RoundHalfEven(n, d) ==
    LET q == n \div d
        r == n % d
    IN  IF 2 * r > d THEN q + 1
        ELSE IF 2 * r < d THEN q
        ELSE IF q % 2 = 0 THEN q ELSE q + 1

\* variant: the fraction instead of the percentage
EngagementRateFraction(engagement, followers) ==
    IF followers > 0 THEN RoundHalfEven(engagement * 100, followers) ELSE 0

\* round((engagement / followers * 100) if followers > 0 else 0.0, 2), in hundredths
EngagementRate(engagement, followers) ==
    IF followers > 0 THEN RoundHalfEven(engagement * 10000, followers) ELSE 0

\* the keys the follower_snapshots table holds rows for
SnapKeys(snaps) == { r.key : r \in snaps }

\* SELECT followers FROM follower_snapshots WHERE platform, page, month: rows[0]
SnapFollowers(snaps, key) == (CHOOSE r \in snaps : r.key = key).followers

\* variant: a missing snapshot counts as one follower
FollowerLookupDefaultOne(snaps, key) ==
    IF key \in SnapKeys(snaps) THEN SnapFollowers(snaps, key) ELSE 1

\* ... and 0 when there is no row
FollowerLookup(snaps, key) ==
    IF key \in SnapKeys(snaps) THEN SnapFollowers(snaps, key) ELSE 0

----------------------------------------------------------------------------
(* The posts table *)

NaturalKey(row) == <<row.platform, row.page, row.date, row.text>>

PostKey(platform, p, page) == <<platform, PostPage(p, page), p.date, p.text>>

KeysOf(tbl) == { NaturalKey(tbl[i]) : i \in DOMAIN tbl }

\* variant: the table has no UNIQUE constraint
ConflictsNever(tbl, key) == FALSE

\* UNIQUE(platform, page, date, text): would inserting this key violate it
Conflicts(tbl, key) == key \in KeysOf(tbl)

\* the VALUES tuple of the INSERT; theme and campaign take the column default ''
NewRow(tbl, platform, p, page, followers) ==
    LET likes == OrZero(p.likes)
        comments == OrZero(p.comments)
        shares == OrZero(p.shares)
        engagement == Engagement(likes, comments, shares)
    IN  [id |-> Len(tbl) + 1,
         platform |-> platform, page |-> PostPage(p, page),
         date |-> p.date, text |-> p.text,
         reach |-> OrZero(p.reach), impressions |-> OrZero(p.views),
         likes |-> likes, comments |-> comments, shares |-> shares,
         clicks |-> OrZero(p.clicks),
         engagement |-> engagement,
         engagement_rate |-> EngagementRate(engagement, followers),
         theme |-> "", campaign |-> ""]

\* variant: both columns are always overwritten
MergeColumnsAlways(reach, views) == {"reach", "impressions"}

\* variant: the conflict handler only skips
MergeColumnsNever(reach, views) == {}

\* the SET list built in the conflict handler
MergeColumns(reach, views) ==
    (IF reach > 0 THEN {"reach"} ELSE {}) \cup (IF views > 0 THEN {"impressions"} ELSE {})

\* variant: the conflicting row is replaced, its labels falling back to the defaults
MergeRowReplace(row, cols, reach, views) ==
    [row EXCEPT !.reach = IF "reach" \in cols THEN reach ELSE @,
                !.impressions = IF "impressions" \in cols THEN views ELSE @,
                !.theme = "", !.campaign = ""]

\* variant: a merge resets the derived rate
MergeRowResetRate(row, cols, reach, views) ==
    [row EXCEPT !.reach = IF "reach" \in cols THEN reach ELSE @,
                !.impressions = IF "impressions" \in cols THEN views ELSE @,
                !.engagement_rate = 0]

\* variant: the UPDATE sets both columns to the incoming values
MergeRowIncoming(row, cols, reach, views) ==
    [row EXCEPT !.reach = reach, !.impressions = views]

\* the SET clause of the conflict handler's UPDATE applied to one row
MergeRow(row, cols, reach, views) ==
    [row EXCEPT !.reach = IF "reach" \in cols THEN reach ELSE @,
                !.impressions = IF "impressions" \in cols THEN views ELSE @]

\* variant: the WHERE clause forgotten
SqlUpdateAllRows(tbl, key, cols, reach, views) ==
    [i \in DOMAIN tbl |-> MergeRow(tbl[i], cols, reach, views)]

\* UPDATE posts SET ... WHERE platform = ? AND page = ? AND date = ? AND text = ?
SqlUpdate(tbl, key, cols, reach, views) ==
    [i \in DOMAIN tbl |->
        IF NaturalKey(tbl[i]) = key THEN MergeRow(tbl[i], cols, reach, views) ELSE tbl[i]]

----------------------------------------------------------------------------
(* Connections *)

\* the posts table as caller c's connection sees it
View(c) == IF ~useTurso /\ dbLock = c THEN txn ELSE posts

\* a write statement by caller c is possible (local: the write lock is free or its own)
CanWrite(c) == useTurso \/ dbLock \in {0, c}

\* the effect of a write statement by caller c leaving the table as tbl
Write(c, tbl) ==
    IF useTurso
    THEN posts' = tbl /\ UNCHANGED <<dbLock, txn>>
    ELSE txn' = tbl /\ dbLock' = c /\ UNCHANGED posts

IdleFrame ==
    [pc |-> "idle", platform |-> "", page |-> NoPage, cur |-> NoPost,
     n |-> 0, inserted |-> 0, fcache |-> <<>>, rows0 |-> 0]

\* variant: _follower_cache is a module-level dict, and still holds what a call
\* looked up before any snapshot was saved
EntryFrameStaleCache(platform, page, rows) ==
    [IdleFrame EXCEPT !.pc = "top", !.platform = platform, !.page = page, !.rows0 = rows,
                      !.fcache = [k \in {platform} \X {"prins", "edupet"} \X {"2026-02", "2026-03"}
                                    |-> 0]]

\* entry of insert_posts: inserted = 0, _follower_cache = {}
EntryFrame(platform, page, rows) ==
    [IdleFrame EXCEPT !.pc = "top", !.platform = platform, !.page = page, !.rows0 = rows]

\* what is observed of a caller's call: whether it was made, whether it ran while
\* the other caller's call ran, the keys it sent an INSERT for, the keys it
\* counted, and whether one of its INSERTs raced the other caller's for the same key
NoObs == [called |-> FALSE, overlap |-> FALSE, tried |-> {}, created |-> {}, raced |-> FALSE]

NoTrial == [phase |-> "off"]

\* the four st.cache_data caches, empty
NoCache == [posts |-> <<>>, stats |-> <<>>, count |-> <<>>, prev |-> <<>>]

\* get_posts.clear(); get_monthly_stats.clear()
ClearPostCaches(ch) == [ch EXCEPT !.posts = <<>>, !.stats = <<>>]

\* variant: save_follower_snapshot leaves the reader caches alone
ClearNothing(ch) == ch

\* get_follower_count.clear(); get_follower_previous_month.clear()
ClearFollowerCaches(ch) == [ch EXCEPT !.count = <<>>, !.prev = <<>>]

NoRet == [op |-> "", args |-> <<>>, value |-> <<>>, flip |-> FALSE]

Init ==
    /\ useTurso \in BOOLEAN
    /\ posts = <<>>
    /\ snapshots = {}
    /\ dbLock = 0
    /\ txn = <<>>
    /\ calls = [c \in Callers |-> IdleFrame]
    /\ obs = [c \in Callers |-> NoObs]
    /\ trial = NoTrial
    /\ cache = NoCache
    /\ uploads = 0
    /\ now = "2026-02"
    /\ ret = NoRet

----------------------------------------------------------------------------
(* The loop body of insert_posts, statement by statement.  A frame keeps   *)
(* the post in hand in cur while statements for it are pending, and a      *)
(* skipped post until the loop moves on.                                   *)

\* `for p in posts` hands out p: the two skip guards, the metric defaults,
\* and the cache test that decides whether a SELECT is needed
NextPost(f, p) ==
    IF SkipPost(p, f.page)
    THEN [f EXCEPT !.cur = p, !.n = @ + 1]
    ELSE [f EXCEPT !.cur = p, !.n = @ + 1,
                   !.pc = IF CacheKey(f.platform, p, f.page) \in DOMAIN f.fcache
                          THEN "insert" ELSE "select"]

\* cache miss: SELECT followers ..., stored in _follower_cache
SelectEffect(f, snaps) ==
    LET key == CacheKey(f.platform, f.cur, f.page)
    IN  [f EXCEPT !.pc = "insert",
                  !.fcache = (key :> FollowerLookup(snaps, key)) @@ @]

\* variant: the conflict is tested against the rows that were stored when the
\* call began (check-then-insert instead of the UNIQUE constraint)
InsertEffectStaleCheck(f, tbl) ==
    LET key == PostKey(f.platform, f.cur, f.page)
        followers == f.fcache[CacheKey(f.platform, f.cur, f.page)]
        cols == MergeColumns(OrZero(f.cur.reach), OrZero(f.cur.views))
    IN  IF ~Conflicts(SubSeq(tbl, 1, f.rows0), key)
        THEN [tbl |-> Append(tbl, NewRow(tbl, f.platform, f.cur, f.page, followers)),
              f   |-> [f EXCEPT !.pc = "top", !.cur = NoPost, !.inserted = @ + 1]]
        ELSE [tbl |-> tbl,
              f   |-> IF cols # {} THEN [f EXCEPT !.pc = "update"]
                      ELSE [f EXCEPT !.pc = "top", !.cur = NoPost]]

\* variant: inserted += 1 after the try block, so merged posts are counted too
InsertEffectCountAll(f, tbl) ==
    LET key == PostKey(f.platform, f.cur, f.page)
        followers == f.fcache[CacheKey(f.platform, f.cur, f.page)]
        cols == MergeColumns(OrZero(f.cur.reach), OrZero(f.cur.views))
    IN  IF ~Conflicts(tbl, key)
        THEN [tbl |-> Append(tbl, NewRow(tbl, f.platform, f.cur, f.page, followers)),
              f   |-> [f EXCEPT !.pc = "top", !.cur = NoPost, !.inserted = @ + 1]]
        ELSE [tbl |-> tbl,
              f   |-> IF cols # {} THEN [f EXCEPT !.pc = "update", !.inserted = @ + 1]
                      ELSE [f EXCEPT !.pc = "top", !.cur = NoPost, !.inserted = @ + 1]]

\* INSERT INTO posts ...: a new row and inserted += 1, or the conflict handler
InsertEffect(f, tbl) ==
    LET key == PostKey(f.platform, f.cur, f.page)
        followers == f.fcache[CacheKey(f.platform, f.cur, f.page)]
        cols == MergeColumns(OrZero(f.cur.reach), OrZero(f.cur.views))
    IN  IF ~Conflicts(tbl, key)
        THEN [tbl |-> Append(tbl, NewRow(tbl, f.platform, f.cur, f.page, followers)),
              f   |-> [f EXCEPT !.pc = "top", !.cur = NoPost, !.inserted = @ + 1]]
        ELSE [tbl |-> tbl,
              f   |-> IF cols # {} THEN [f EXCEPT !.pc = "update"]
                      ELSE [f EXCEPT !.pc = "top", !.cur = NoPost]]

\* the conflict handler's UPDATE posts SET reach/impressions
UpdateEffect(f, tbl) ==
    LET reach == OrZero(f.cur.reach)
        views == OrZero(f.cur.views)
    IN  [tbl |-> SqlUpdate(tbl, PostKey(f.platform, f.cur, f.page),
                           MergeColumns(reach, views), reach, views),
         f   |-> [f EXCEPT !.pc = "top", !.cur = NoPost]]

\* variant: `return len(posts)`
ReturnFrameCountsPosts(f) ==
    [IdleFrame EXCEPT !.inserted = f.n, !.rows0 = f.rows0, !.n = f.n]

\* what insert_posts leaves in the frame it returns from
ReturnFrame(f) ==
    [IdleFrame EXCEPT !.inserted = f.inserted, !.rows0 = f.rows0, !.n = f.n]

\* the frame of a call that ended by an exception: nothing is returned
RaiseFrame(f) ==
    [IdleFrame EXCEPT !.rows0 = f.rows0, !.n = f.n]

----------------------------------------------------------------------------
(* insert_posts as steps of a caller.  U is the universe the inputs are    *)
(* drawn from.  `watch` switches the observation of tried/created keys on; *)
(* it never influences the program state.                                  *)

\* observation of the call of c: it overlaps the calls that are running
ObserveCall(c) ==
    LET running == { d \in Callers \ {c} : calls[d].pc # "idle" }
    IN  [d \in Callers |->
            IF d = c THEN [NoObs EXCEPT !.called = TRUE, !.overlap = running # {}]
            ELSE IF d \in running THEN [obs[d] EXCEPT !.overlap = TRUE]
            ELSE obs[d]]

\* observation of the INSERT of c for key
ObserveInsert(c, key, counted) ==
    [obs EXCEPT ![c].tried = @ \cup {key},
                ![c].created = IF counted THEN @ \cup {key} ELSE @,
                ![c].raced = @ \/ \E d \in Callers \ {c} :
                                    /\ calls[d].pc = "insert"
                                    /\ PostKey(calls[d].platform, calls[d].cur, calls[d].page) = key]

Call(c, U, watch) ==
    /\ calls[c].pc = "idle"
    /\ \E platform \in U.platforms, page \in U.pageArgs :
         calls' = [calls EXCEPT ![c] = EntryFrame(platform, page, Len(posts))]
    /\ obs' = IF watch THEN ObserveCall(c) ELSE obs
    /\ ret' = NoRet
    /\ UNCHANGED <<useTurso, posts, snapshots, dbLock, txn, trial, cache, uploads, now>>

\* the loop takes the next post of the list (the list is drawn as it is consumed)
LoopTop(c, U) ==
    /\ calls[c].pc = "top"
    /\ calls[c].n < MaxBatch
    /\ \E p \in U.feed :
         /\ \/ SkipPost(p, calls[c].page)
            \/ Conflicts(View(c), PostKey(calls[c].platform, p, calls[c].page))
            \/ Len(View(c)) < MaxRows
         /\ calls' = [calls EXCEPT ![c] = NextPost(calls[c], p)]
    /\ UNCHANGED <<useTurso, posts, snapshots, dbLock, txn, obs, trial, cache, uploads, now, ret>>

Select(c) ==
    /\ calls[c].pc = "select"
    /\ calls' = [calls EXCEPT ![c] = SelectEffect(calls[c], snapshots)]
    /\ UNCHANGED <<useTurso, posts, snapshots, dbLock, txn, obs, trial, cache, uploads, now, ret>>

Insert(c, watch) ==
    LET f == calls[c]
        key == PostKey(f.platform, f.cur, f.page)
        e == InsertEffect(f, View(c))
    IN  /\ f.pc = "insert"
        /\ CanWrite(c)
        /\ Conflicts(View(c), key) \/ Len(View(c)) < MaxRows
        /\ Write(c, e.tbl)
        /\ calls' = [calls EXCEPT ![c] = e.f]
        /\ obs' = IF watch THEN ObserveInsert(c, key, e.f.inserted > f.inserted) ELSE obs
        /\ UNCHANGED <<useTurso, snapshots, trial, cache, uploads, now, ret>>

Update(c) ==
    LET e == UpdateEffect(calls[c], View(c))
    IN  /\ calls[c].pc = "update"
        /\ CanWrite(c)
        /\ Write(c, e.tbl)
        /\ calls' = [calls EXCEPT ![c] = e.f]
        /\ UNCHANGED <<useTurso, snapshots, obs, trial, cache, uploads, now, ret>>

\* end of the list: (local) conn.commit(), conn.close(); the two cache clears;
\* return inserted
Return(c) ==
    /\ calls[c].pc = "top"
    /\ IF ~useTurso /\ dbLock = c
       THEN posts' = txn /\ dbLock' = 0 /\ txn' = <<>>
       ELSE UNCHANGED <<posts, dbLock, txn>>
    /\ calls' = [calls EXCEPT ![c] = ReturnFrame(calls[c])]
    /\ cache' = ClearPostCaches(cache)
    /\ UNCHANGED <<useTurso, snapshots, obs, trial, uploads, now, ret>>

\* local SQLite: the INSERT waits for the write lock another connection holds;
\* when the busy timeout of sqlite3.connect runs out it raises OperationalError,
\* which insert_posts does not catch
LockTimeout(c) ==
    LET f == calls[c]
    IN  /\ f.pc = "insert"
        /\ ~CanWrite(c)
        /\ calls' = [calls EXCEPT ![c] = RaiseFrame(f)]
        /\ obs' = ObserveInsert(c, PostKey(f.platform, f.cur, f.page), FALSE)
        /\ UNCHANGED <<useTurso, posts, snapshots, dbLock, txn, trial, cache, uploads, now, ret>>

----------------------------------------------------------------------------
(* The other writers *)

\* variant: the WHERE clause forgotten
LabelRowsAll(tbl, id, theme, campaign) ==
    [i \in DOMAIN tbl |-> [tbl[i] EXCEPT !.theme = theme, !.campaign = campaign]]

\* UPDATE posts SET theme = ?, campaign = ? WHERE id = ?
LabelRows(tbl, id, theme, campaign) ==
    [i \in DOMAIN tbl |->
        IF tbl[i].id = id
        THEN [tbl[i] EXCEPT !.theme = theme, !.campaign = campaign]
        ELSE tbl[i]]

UpdatePostLabels(U) ==
    /\ CanWrite(0)
    /\ \E id \in 1..MaxRows, lb \in U.labels :
         posts' = LabelRows(posts, id, lb[1], lb[2])
    /\ UNCHANGED <<useTurso, snapshots, dbLock, txn, calls, obs, trial, cache, uploads, now, ret>>

\* variant: ON CONFLICT(platform, page, month) DO NOTHING
SaveSnapshotKeepFirst(snaps, key, followers) ==
    IF key \in SnapKeys(snaps) THEN snaps
    ELSE snaps \cup { [key |-> key, followers |-> followers] }

\* INSERT INTO follower_snapshots ... ON CONFLICT(platform, page, month) DO UPDATE
SaveSnapshot(snaps, key, followers) ==
    { r \in snaps : r.key # key } \cup { [key |-> key, followers |-> followers] }

\* save_follower_snapshot(db_path, key[1], key[2], followers, key[3])
SaveStep(key, followers) ==
    /\ CanWrite(0)
    /\ key \in SnapKeys(snapshots) \/ Cardinality(snapshots) < MaxSnaps
    /\ snapshots' = SaveSnapshot(snapshots, key, followers)
    /\ cache' = ClearFollowerCaches(cache)
    /\ UNCHANGED <<useTurso, posts, dbLock, txn, calls, obs, trial, uploads, now>>

SaveFollowerSnapshot(U) ==
    /\ \E key \in U.snapKeys, followers \in U.followers : SaveStep(key, followers)
    /\ UNCHANGED ret

----------------------------------------------------------------------------
(* Sequential use: one caller, and no other operation while its call runs *)

Quiet == \A c \in Callers : calls[c].pc = "idle"

SeqSelect == Select(1)
SeqInsert == Insert(1, FALSE)
SeqUpdate == Update(1)
SeqReturn == Return(1)

MergeCall == Call(1, MergeUniverse, FALSE)
MergeLoopTop == LoopTop(1, MergeUniverse)
MergeLabels == Quiet /\ UpdatePostLabels(MergeUniverse)
MergeSnapshot == Quiet /\ SaveFollowerSnapshot(MergeUniverse)

Next ==
    \/ MergeCall
    \/ MergeLoopTop
    \/ SeqSelect
    \/ SeqInsert
    \/ SeqUpdate
    \/ SeqReturn
    \/ MergeLabels
    \/ MergeSnapshot

Spec == Init /\ [][Next]_vars

KeyCall == Call(1, KeyUniverse, FALSE)
KeyLoopTop == LoopTop(1, KeyUniverse)
KeyLabels == Quiet /\ UpdatePostLabels(KeyUniverse)
KeySnapshot == Quiet /\ SaveFollowerSnapshot(KeyUniverse)

NextKeys ==
    \/ KeyCall
    \/ KeyLoopTop
    \/ SeqSelect
    \/ SeqInsert
    \/ SeqUpdate
    \/ SeqReturn
    \/ KeyLabels
    \/ KeySnapshot

SpecKeys == Init /\ [][NextKeys]_vars

----------------------------------------------------------------------------
(* insert_posts as a function of the store: the loop body run to           *)
(* completion for every post of a list, as a single caller executes it.    *)

\* one pass of the loop body for post p
RunPost(f, tbl, snaps, p) ==
    LET f1 == NextPost(f, p)
        f2 == IF f1.pc = "select" THEN SelectEffect(f1, snaps) ELSE f1
        e  == InsertEffect(f2, tbl)
    IN  IF f1.pc = "top" THEN [tbl |-> tbl, f |-> f1]
        ELSE IF e.f.pc = "update" THEN UpdateEffect(e.f, e.tbl)
        ELSE e

RECURSIVE RunBatch(_, _, _, _)
\* `for p in posts: ...`
RunBatch(f, tbl, snaps, batch) ==
    IF batch = <<>> THEN [tbl |-> tbl, f |-> f]
    ELSE LET e == RunPost(f, tbl, snaps, Head(batch))
         IN  RunBatch(e.f, e.tbl, snaps, Tail(batch))

\* insert_posts(posts, platform, page): the table it leaves and the value it returns
InsertPosts(tbl, snaps, batch, platform, page) ==
    LET e == RunBatch(EntryFrame(platform, page, Len(tbl)), tbl, snaps, batch)
    IN  [tbl |-> e.tbl, inserted |-> ReturnFrame(e.f).inserted]

\* the lists of at most MaxBatch posts over a feed
Batches(feed) == UNION { [1..n -> feed] : n \in 0..MaxBatch }

\* one publication reported with and without reach and with other metrics,
\* a second publication, and a post without page
AlgFeed ==
    { MkPost("prins", FebDate, "a", CsvProfile, 0),
      MkPost("prins", FebDate, "a", CsvProfile, 500),
      MkPost("prins", FebDate, "a", CHOOSE pr \in Profiles : pr # CsvProfile, 800),
      MkPost("prins", FebDate, "b", CsvProfile, 0),
      MkPost(NoPage, FebDate, "a", CsvProfile, 500) }

\* what an earlier sync may have left in the store
SeedBatches ==
    { <<>>, << MkPost("prins", FebDate, "a", CsvProfile, 500) >> }

AlgSnapshots == { {}, SaveSnapshot({}, <<"facebook", "prins", "2026-02">>, 1000) }

\* the experiment: batches A and B are inserted in the order A, B into posts
\* and in the order B, A into the mirror store trial.alt
InitAlg ==
    /\ useTurso \in BOOLEAN
    /\ posts = <<>>
    /\ snapshots \in AlgSnapshots
    /\ dbLock = 0
    /\ txn = <<>>
    /\ calls = [c \in Callers |-> IdleFrame]
    /\ obs = [c \in Callers |-> NoObs]
    /\ trial \in [phase : {"drawn"}, S : SeedBatches,
                   A : Batches(AlgFeed), B : Batches(AlgFeed),
                   platform : {"facebook"}, page : {NoPage},
                   alt : {<<>>}, ret : {<<>>}, altRet : {<<>>}, rows1 : {0}]
    /\ cache = NoCache
    /\ uploads = 0
    /\ now = "2026-02"
    /\ ret = NoRet

AlgSeed ==
    /\ trial.phase = "drawn"
    /\ LET r == InsertPosts(posts, snapshots, trial.S, trial.platform, trial.page)
       IN  /\ posts' = r.tbl
           /\ trial' = [trial EXCEPT !.phase = "seeded", !.alt = r.tbl]
    /\ cache' = ClearPostCaches(cache)
    /\ UNCHANGED <<useTurso, snapshots, dbLock, txn, calls, obs, uploads, now, ret>>

AlgFirst ==
    /\ trial.phase = "seeded"
    /\ LET r == InsertPosts(posts, snapshots, trial.A, trial.platform, trial.page)
           m == InsertPosts(trial.alt, snapshots, trial.B, trial.platform, trial.page)
       IN  /\ posts' = r.tbl
           /\ trial' = [trial EXCEPT !.phase = "first", !.alt = m.tbl,
                                     !.ret = <<r.inserted>>, !.altRet = <<m.inserted>>,
                                     !.rows1 = Len(r.tbl)]
    /\ cache' = ClearPostCaches(cache)
    /\ UNCHANGED <<useTurso, snapshots, dbLock, txn, calls, obs, uploads, now, ret>>

AlgSecond ==
    /\ trial.phase = "first"
    /\ LET r == InsertPosts(posts, snapshots, trial.B, trial.platform, trial.page)
           m == InsertPosts(trial.alt, snapshots, trial.A, trial.platform, trial.page)
       IN  /\ posts' = r.tbl
           /\ trial' = [trial EXCEPT !.phase = "second", !.alt = m.tbl,
                                     !.ret = Append(@, r.inserted),
                                     !.altRet = Append(@, m.inserted)]
    /\ cache' = ClearPostCaches(cache)
    /\ UNCHANGED <<useTurso, snapshots, dbLock, txn, calls, obs, uploads, now, ret>>

NextAlg ==
    \/ AlgSeed
    \/ AlgFirst
    \/ AlgSecond

SpecAlg == InitAlg /\ [][NextAlg]_vars

----------------------------------------------------------------------------
(* Concurrent use: two callers each make one insert_posts call, on a store *)
(* an earlier sync may have filled                                         *)

ConcUniverse ==
    [platforms |-> {"facebook"},
     pageArgs  |-> {NoPage},
     feed      |-> { MkPost("prins", FebDate, "a", CsvProfile, 500),
                     MkPost("prins", FebDate, "a", CHOOSE pr \in Profiles : pr # CsvProfile, 0),
                     MkPost("prins", MarDate, "b", CsvProfile, 500) },
     snapKeys  |-> {},
     followers |-> {},
     labels    |-> {}]

InitConc ==
    /\ useTurso \in BOOLEAN
    /\ trial \in [phase : {"conc"}, S : SeedBatches, platform : {"facebook"}, page : {NoPage}]
    /\ posts = InsertPosts(<<>>, {}, trial.S, trial.platform, trial.page).tbl
    /\ snapshots = {}
    /\ dbLock = 0
    /\ txn = <<>>
    /\ calls = [c \in Callers |-> IdleFrame]
    /\ obs = [c \in Callers |-> NoObs]
    /\ cache = NoCache
    /\ uploads = 0
    /\ now = "2026-02"
    /\ ret = NoRet

ConcCall == \E c \in Callers : ~obs[c].called /\ Call(c, ConcUniverse, TRUE)
ConcLoopTop == \E c \in Callers : LoopTop(c, ConcUniverse)
ConcSelect == \E c \in Callers : Select(c)
ConcInsert == \E c \in Callers : Insert(c, TRUE)
ConcUpdate == \E c \in Callers : Update(c)
ConcReturn == \E c \in Callers : Return(c)
ConcLockTimeout == \E c \in Callers : LockTimeout(c)

NextConc ==
    \/ ConcCall
    \/ ConcLoopTop
    \/ ConcSelect
    \/ ConcInsert
    \/ ConcUpdate
    \/ ConcReturn
    \/ ConcLockTimeout

SpecConc == InitConc /\ [][NextConc]_vars

----------------------------------------------------------------------------
(* log_upload and the cached readers of the posts table *)

\* INSERT INTO uploads ...
LogUpload ==
    /\ CanWrite(0)
    /\ uploads < MaxUploads
    /\ uploads' = uploads + 1
    /\ UNCHANGED <<useTurso, posts, snapshots, dbLock, txn, calls, obs, trial, cache, now, ret>>

\* SELECT * FROM posts WHERE 1=1 [AND platform = ?] [AND page = ?]; an empty
\* filter is falsy and adds no condition.  The result is kept as the set of
\* its rows: ORDER BY date DESC leaves the order of equal dates open.
GetPostsQuery(tbl, platform, page) ==
    { tbl[i] : i \in { j \in DOMAIN tbl :
                        /\ platform = "" \/ tbl[j].platform = platform
                        /\ page = "" \/ tbl[j].page = page } }

\* a call of a reader decorated with @st.cache_data: the cached value for
\* these arguments when there is one, the computed value otherwise
Cached(name, args, computed) ==
    IF args \in DOMAIN cache[name] THEN cache[name][args] ELSE computed

\* what the call leaves behind: the value it returns, stored under its arguments
ReaderReturns(name, args, value) ==
    /\ cache' = [cache EXCEPT ![name] = (args :> value) @@ @]
    /\ ret' = [op |-> name, args |-> args, value |-> value, flip |-> ~ret.flip]

GetPosts(U) ==
    /\ \E args \in U.postFilters :
         ReaderReturns("posts", args,
                       Cached("posts", args, GetPostsQuery(posts, args[1], args[2])))
    /\ UNCHANGED <<useTurso, posts, snapshots, dbLock, txn, calls, obs, trial, uploads, now>>

\* time strings SQLite's date functions do not parse: an offset without colon
RawRests == { ApiDate.rest }

\* strftime('%Y-%m', date): NULL for a time string SQLite does not parse
StrfMonth(date) == IF date.rest \in RawRests THEN "NULL" ELSE date.ym

\* the rows of a group: WHERE [platform = ?] ... GROUP BY platform, page, month
GroupRows(tbl, platform, g) ==
    { i \in DOMAIN tbl :
        /\ platform = "" \/ tbl[i].platform = platform
        /\ <<tbl[i].platform, tbl[i].page, StrfMonth(tbl[i].date)>> = g }

StatGroups(tbl, platform) ==
    { <<tbl[i].platform, tbl[i].page, StrfMonth(tbl[i].date)>> :
        i \in { j \in DOMAIN tbl : platform = "" \/ tbl[j].platform = platform } }

RECURSIVE SumOver(_, _, _)
\* SUM(field) over the rows idx
SumOver(tbl, idx, field) ==
    IF idx = {} THEN 0
    ELSE LET i == CHOOSE j \in idx : TRUE
         IN  tbl[i][field] + SumOver(tbl, idx \ {i}, field)

\* variant: the platform filter is not applied
GetMonthlyStatsUnfiltered(tbl, platform) ==
    { LET rows == GroupRows(tbl, "", g)
      IN  [platform |-> g[1], page |-> g[2], month |-> g[3],
           total_posts |-> Cardinality(rows),
           total_likes |-> SumOver(tbl, rows, "likes"),
           total_comments |-> SumOver(tbl, rows, "comments"),
           total_shares |-> SumOver(tbl, rows, "shares"),
           total_engagement |-> SumOver(tbl, rows, "engagement"),
           total_reach |-> SumOver(tbl, rows, "reach"),
           total_impressions |-> SumOver(tbl, rows, "impressions")] :
      g \in StatGroups(tbl, "") }

\* SELECT platform, page, strftime('%Y-%m', date) as month, COUNT(*), SUM(...)
\* FROM posts WHERE 1=1 [AND platform = ?] GROUP BY platform, page, month
GetMonthlyStatsQuery(tbl, platform) ==
    { LET rows == GroupRows(tbl, platform, g)
      IN  [platform |-> g[1], page |-> g[2], month |-> g[3],
           total_posts |-> Cardinality(rows),
           total_likes |-> SumOver(tbl, rows, "likes"),
           total_comments |-> SumOver(tbl, rows, "comments"),
           total_shares |-> SumOver(tbl, rows, "shares"),
           total_engagement |-> SumOver(tbl, rows, "engagement"),
           total_reach |-> SumOver(tbl, rows, "reach"),
           total_impressions |-> SumOver(tbl, rows, "impressions")] :
      g \in StatGroups(tbl, platform) }

GetMonthlyStats(U) ==
    /\ \E platform \in U.statFilters :
         ReaderReturns("stats", <<platform>>,
                       Cached("stats", <<platform>>, GetMonthlyStatsQuery(posts, platform)))
    /\ UNCHANGED <<useTurso, posts, snapshots, dbLock, txn, calls, obs, trial, uploads, now>>

\* ttl=300: a cached entry is dropped when its five minutes are over
Expire ==
    /\ \E name \in DOMAIN cache : \E args \in DOMAIN cache[name] :
         cache' = [cache EXCEPT ![name] =
                      [a \in DOMAIN cache[name] \ {args} |-> cache[name][a]]]
    /\ UNCHANGED <<useTurso, posts, snapshots, dbLock, txn, calls, obs, trial, uploads, now, ret>>

\* Turso: the HTTP request of the SELECT, or of the UPDATE inside the except
\* block, fails (raise_for_status, timeout): the exception leaves insert_posts
TursoError(c) ==
    /\ useTurso
    /\ calls[c].pc \in {"select", "update"}
    /\ calls' = [calls EXCEPT ![c] = RaiseFrame(calls[c])]
    /\ UNCHANGED <<useTurso, posts, snapshots, dbLock, txn, obs, trial, cache, uploads, now, ret>>

\* Turso: the HTTP request of the INSERT fails; `except Exception` takes the
\* failure for a conflict and runs the handler
TursoInsertError(c) ==
    LET f == calls[c]
        cols == MergeColumns(OrZero(f.cur.reach), OrZero(f.cur.views))
    IN  /\ useTurso
        /\ f.pc = "insert"
        /\ calls' = [calls EXCEPT ![c] =
                        IF cols # {} THEN [f EXCEPT !.pc = "update"]
                        ELSE [f EXCEPT !.pc = "top", !.cur = NoPost]]
        /\ UNCHANGED <<useTurso, posts, snapshots, dbLock, txn, obs, trial, cache, uploads, now, ret>>

----------------------------------------------------------------------------
(* Sequential use of the four writers *)

WriteUniverse ==
    [platforms |-> {"facebook"},
     pageArgs  |-> {NoPage},
     feed      |-> { MkPost("prins", FebDate, "a", CsvProfile, 500),
                     MkPost("prins", FebDate, "a", CHOOSE pr \in Profiles : pr # CsvProfile, 0),
                     MkPost("prins", MarDate, "b", CsvProfile, 500),
                     MkPost(NoPage, FebDate, "a", CsvProfile, 500) },
     snapKeys  |-> { <<"facebook", "prins", "2026-02">> },
     followers |-> Followers,
     labels    |-> Labels]

WriteCall == Call(1, WriteUniverse, FALSE)
WriteLoopTop == LoopTop(1, WriteUniverse)
WriteLabels == Quiet /\ UpdatePostLabels(WriteUniverse)
WriteSnapshot == Quiet /\ SaveFollowerSnapshot(WriteUniverse)
WriteLogUpload == Quiet /\ LogUpload

NextWrite ==
    \/ WriteCall
    \/ WriteLoopTop
    \/ SeqSelect
    \/ SeqInsert
    \/ SeqUpdate
    \/ SeqReturn
    \/ WriteLabels
    \/ WriteSnapshot
    \/ WriteLogUpload

SpecWrite == Init /\ [][NextWrite]_vars

----------------------------------------------------------------------------
(* Sequential use of insert_posts, update_post_labels and the readers of   *)
(* the posts table                                                         *)

ReadUniverse ==
    [platforms   |-> {"facebook"},
     pageArgs    |-> {NoPage},
     feed        |-> { MkPost("prins", FebDate, "a", CsvProfile, 500),
                       MkPost("prins", FebDate, "a", CHOOSE pr \in Profiles : pr # CsvProfile, 800),
                       MkPost("prins", MarDate, "b", CsvProfile, 500) },
     labels      |-> {<<"Puppies", "Voorjaar">>},
     postFilters |-> { <<"facebook", "">> },
     statFilters |-> { "" }]

ReadCall == Call(1, ReadUniverse, FALSE)
ReadLoopTop == LoopTop(1, ReadUniverse)
ReadLabels == Quiet /\ UpdatePostLabels(ReadUniverse)
ReadGetPosts == Quiet /\ GetPosts(ReadUniverse)
ReadGetMonthlyStats == Quiet /\ GetMonthlyStats(ReadUniverse)

NextRead ==
    \/ ReadCall
    \/ ReadLoopTop
    \/ SeqSelect
    \/ SeqInsert
    \/ SeqUpdate
    \/ SeqReturn
    \/ ReadLabels
    \/ ReadGetPosts
    \/ ReadGetMonthlyStats
    \/ Expire

SpecRead == Init /\ [][NextRead]_vars

\* ... and with requests to the remote store that fail
FaultTursoError == TursoError(1)
FaultTursoInsertError == TursoInsertError(1)

NextFault ==
    \/ NextRead
    \/ FaultTursoError
    \/ FaultTursoInsertError

SpecFault == Init /\ [][NextFault]_vars

----------------------------------------------------------------------------
(* Sequential use of insert_posts and get_monthly_stats on two platforms,  *)
(* with dates of three sources                                             *)

StatsUniverse ==
    [platforms   |-> Platforms,
     pageArgs    |-> {NoPage},
     feed        |-> { MkPost("prins", FebDate, "a", CsvProfile, 500),
                       MkPost("prins", FebDate, "b", CHOOSE pr \in Profiles : pr # CsvProfile, 800),
                       MkPost("prins", MarDate, "a", CsvProfile, 500),
                       MkPost("prins", ApiDate, "c", CsvProfile, 500) },
     statFilters |-> { "", "facebook" }]

StatsCall == Call(1, StatsUniverse, FALSE)
StatsLoopTop == LoopTop(1, StatsUniverse)
StatsGetMonthlyStats == Quiet /\ GetMonthlyStats(StatsUniverse)

NextStats ==
    \/ StatsCall
    \/ StatsLoopTop
    \/ SeqSelect
    \/ SeqInsert
    \/ SeqUpdate
    \/ SeqReturn
    \/ StatsGetMonthlyStats
    \/ Expire

SpecStats == Init /\ [][NextStats]_vars

----------------------------------------------------------------------------
(* The follower ledger and its cached readers *)

\* the months of the ledger in calendar order: "YYYY-MM" strings compare as dates
Months == <<"2025-11", "2026-01", "2026-02">>

MonthIdx(m) == CHOOSE i \in DOMAIN Months : Months[i] = m

\* month < ?
MonthBefore(a, b) == MonthIdx(a) < MonthIdx(b)

\* SELECT followers FROM follower_snapshots WHERE platform = ? AND page = ? AND month = ?
GetFollowerCountQuery(snaps, key) ==
    IF key \in SnapKeys(snaps) THEN SnapFollowers(snaps, key) ELSE None

GetFollowerCount(U) ==
    /\ \E key \in U.snapKeys :
         ReaderReturns("count", key,
                       Cached("count", key, GetFollowerCountQuery(snapshots, key)))
    /\ UNCHANGED <<useTurso, posts, snapshots, dbLock, txn, calls, obs, trial, uploads, now>>

\* SELECT followers ... WHERE platform = ? AND page = ? AND month < ?
\* ORDER BY month DESC LIMIT 1
GetFollowerPreviousMonthQuery(snaps, platform, page, current_month) ==
    LET earlier == { r \in snaps : /\ r.key[1] = platform /\ r.key[2] = page
                                   /\ MonthBefore(r.key[3], current_month) }
    IN  IF earlier = {} THEN None
        ELSE (CHOOSE r \in earlier :
                 \A q \in earlier : ~MonthBefore(r.key[3], q.key[3])).followers

\* current_month is read from the clock inside the function; the cache key is
\* (db_path, platform, page)
GetFollowerPreviousMonth(U) ==
    /\ \E args \in U.prevArgs :
         ReaderReturns("prev", args,
                       Cached("prev", args,
                              GetFollowerPreviousMonthQuery(snapshots, args[1], args[2], now)))
    /\ UNCHANGED <<useTurso, posts, snapshots, dbLock, txn, calls, obs, trial, uploads, now>>

\* datetime.now(timezone.utc) passes into the next month
Tick ==
    /\ \E i \in DOMAIN Months :
         /\ Months[i] = now
         /\ i < Len(Months)
         /\ now' = Months[i + 1]
    /\ UNCHANGED <<useTurso, posts, snapshots, dbLock, txn, calls, obs, trial, cache, uploads, ret>>

LedgerUniverse ==
    [snapKeys  |-> { <<"facebook", "prins", Months[i]>> : i \in DOMAIN Months },
     followers |-> Followers,
     prevArgs  |-> { <<"facebook", "prins">>, <<"facebook", "edupet">> }]

InitLedger ==
    /\ useTurso \in BOOLEAN
    /\ posts = <<>>
    /\ snapshots = {}
    /\ dbLock = 0
    /\ txn = <<>>
    /\ calls = [c \in Callers |-> IdleFrame]
    /\ obs = [c \in Callers |-> NoObs]
    /\ trial = NoTrial
    /\ cache = NoCache
    /\ uploads = 0
    /\ now = "2026-01"
    /\ ret = NoRet

\* the call is recorded with its arguments
LedgerSave ==
    \E key \in LedgerUniverse.snapKeys, followers \in LedgerUniverse.followers :
        /\ SaveStep(key, followers)
        /\ ret' = [op |-> "save", args |-> <<key, followers>>, value |-> <<>>,
                   flip |-> ~ret.flip]

LedgerGetFollowerCount == GetFollowerCount(LedgerUniverse)
LedgerGetFollowerPreviousMonth == GetFollowerPreviousMonth(LedgerUniverse)

NextLedger ==
    \/ LedgerSave
    \/ LedgerGetFollowerCount
    \/ LedgerGetFollowerPreviousMonth
    \/ Expire
    \/ Tick

SpecLedger == InitLedger /\ [][NextLedger]_vars

----------------------------------------------------------------------------
(* Batches with a post whose metric is not a number *)

\* a metric value that is not a number, such as the text "abc"
NotANumber == -2

BadProfile == [CsvProfile EXCEPT !.likes = NotANumber]

\* likes + comments + shares is not defined for the post
Malformed(p) == \E fld \in {"likes", "comments", "shares"} : p[fld] = NotANumber

BadUniverse ==
    [platforms |-> {"facebook"},
     pageArgs  |-> {NoPage},
     feed      |-> { MkPost("prins", FebDate, "a", CsvProfile, 500),
                     MkPost("prins", MarDate, "b", CsvProfile, 0),
                     MkPost("prins", NoDate, "c", BadProfile, 500) },
     bad       |-> { MkPost("prins", FebDate, "c", BadProfile, 500) }]

\* the loop body reaches `engagement = likes + comments + shares` with a
\* metric that is not a number: TypeError, caught nowhere in insert_posts;
\* the local connection is dropped with its transaction uncommitted
MalformedPost(c, U) ==
    /\ calls[c].pc = "top"
    /\ calls[c].n < MaxBatch
    /\ \E p \in U.bad : Malformed(p) /\ ~SkipPost(p, calls[c].page)
    /\ calls' = [calls EXCEPT ![c] = RaiseFrame(calls[c])]
    /\ IF ~useTurso /\ dbLock = c
       THEN dbLock' = 0 /\ txn' = <<>> /\ UNCHANGED posts
       ELSE UNCHANGED <<posts, dbLock, txn>>
    /\ ret' = [op |-> "TypeError", args |-> <<>>, value |-> <<>>, flip |-> ret.flip]
    /\ UNCHANGED <<useTurso, snapshots, obs, trial, cache, uploads, now>>

BadCall == Call(1, BadUniverse, FALSE)
BadLoopTop == LoopTop(1, BadUniverse)
BadMalformedPost == MalformedPost(1, BadUniverse)

NextBad ==
    \/ BadCall
    \/ BadLoopTop
    \/ SeqSelect
    \/ SeqInsert
    \/ SeqUpdate
    \/ SeqReturn
    \/ BadMalformedPost

SpecBad == Init /\ [][NextBad]_vars

----------------------------------------------------------------------------
(* csv_import.py: the pure functions of the CSV import.  A text is the     *)
(* sequence of its characters; a header cell is its name and whether the   *)
(* file pads it with blanks.                                               *)

IG_ONLY_COLUMNS == {"Vind-ik-leuks", "Media type"}

FB_ONLY_COLUMNS == {"Deelacties", "Berichttype", "Totaal aantal klikken"}

\* h.strip() of a header cell
StripCell(h) == h.name

\* the header cells a file may have
HeaderCells ==
    { [name |-> "Vind-ik-leuks", padded |-> FALSE],
      [name |-> "Media type", padded |-> TRUE],
      [name |-> "Deelacties", padded |-> FALSE],
      [name |-> "Totaal aantal klikken", padded |-> TRUE],
      [name |-> "deelacties", padded |-> FALSE],
      [name |-> "Bereik", padded |-> FALSE] }

\* str.lower() of one character
LowerChar(ch) ==
    CASE ch = "I" -> "i"
      [] ch = "G" -> "g"
      [] OTHER -> ch

\* str.lower()
Lower(s) == [i \in DOMAIN s |-> LowerChar(s[i])]

\* sub in s
Contains(sub, s) ==
    \E i \in 0..(Len(s) - Len(sub)) : SubSeq(s, i + 1, i + Len(sub)) = sub

\* the stems (file names without the directory and without ".csv") a file may have
Stems ==
    { <<>>,
      <<"i", "g">>, <<"I", "G">>, <<"f", "b">>, <<"i", "_", "g">>,
      <<"d", "i", "g", "i", "t">>,
      <<"I", "n", "s", "t", "a">>,
      <<"i", "n", "s", "t", "a", "g", "r", "a", "m">>,
      <<"p", "o", "s", "t", "s">> }

\* the directories it may lie in
Dirs == { <<>>, <<"i", "g">> }

\* variant: the file name is looked at before the header
DetectPlatformNameFirst(header, path) ==
    LET name == Lower(path.stem)
    IN  IF \/ Contains(<<"i", "g">>, name)
           \/ Contains(<<"i", "n", "s", "t", "a", "g", "r", "a", "m">>, name)
           \/ Contains(<<"i", "n", "s", "t", "a">>, name)
        THEN "instagram"
        ELSE IF { StripCell(h) : h \in header } \cap IG_ONLY_COLUMNS # {} THEN "instagram"
        ELSE "facebook"

\* detect_platform(csv_path) for a file with this header row
DetectPlatform(header, path) ==
    LET header_set == { StripCell(h) : h \in header }
        name == Lower(path.stem)
    IN  IF header_set \cap IG_ONLY_COLUMNS # {} THEN "instagram"
        ELSE IF header_set \cap FB_ONLY_COLUMNS # {} THEN "facebook"
        ELSE IF \/ Contains(<<"i", "g">>, name)
                \/ Contains(<<"i", "n", "s", "t", "a", "g", "r", "a", "m">>, name)
                \/ Contains(<<"i", "n", "s", "t", "a">>, name)
             THEN "instagram"
        ELSE "facebook"

\* a cell value: None, or a text
NoneCell == [isNone |-> TRUE, text |-> <<>>]

TextCell(s) == [isNone |-> FALSE, text |-> s]

\* the cell values _safe_int is given
Cells ==
    { NoneCell, TextCell(<<>>), TextCell(<<" ">>),
      TextCell(<<"1", ",", "2", "3", "4">>), TextCell(<<"1", ",", "2", ",", "3">>),
      TextCell(<<" ", "1", "2", " ">>), TextCell(<<"1", "2", ".", "7">>),
      TextCell(<<"-", "5">>), TextCell(<<"1", "e", "3">>),
      TextCell(<<"a", "b", "c">>), TextCell(<<"1", " ", "2">>),
      TextCell(<<"n", "a", "n">>),
      TextCell(<<"i", "n", "f">>), TextCell(<<"-", "I", "n", "f">>),
      TextCell(<<"1", "e", "9", "9", "9">>) }

\* str.replace(",", "")
RemoveCommas(s) == SelectSeq(s, LAMBDA ch : ch # ",")

\* str.strip()
StripText(s) ==
    LET inner == { i \in DOMAIN s : s[i] # " " }
    IN  IF inner = {} THEN <<>>
        ELSE SubSeq(s, CHOOSE i \in inner : \A j \in inner : i <= j,
                       CHOOSE i \in inner : \A j \in inner : j <= i)

DigitChars == {"0", "1", "2", "3", "4", "5", "6", "7", "8", "9"}

\* the largest decimal exponent of a finite float (sys.float_info.max_10_exp)
MaxFloatExp == 308

\* float(s) followed by int(): the kind of the float (a ValueError of float is
\* kind "error") and, for a finite one, the integer it truncates to.  Signs,
\* digits, one decimal point, an exponent, and the words inf and nan
FloatToInt(s) ==
    LET neg  == s # <<>> /\ s[1] = "-"
        body == IF s # <<>> /\ s[1] \in {"-", "+"} THEN Tail(s) ELSE s
        es   == { i \in DOMAIN body : body[i] = "e" }
        pe   == IF es = {} THEN Len(body) + 1 ELSE CHOOSE i \in es : \A j \in es : i <= j
        mant == SubSeq(body, 1, pe - 1)
        expo == SubSeq(body, pe + 1, Len(body))
        ds   == { i \in DOMAIN mant : mant[i] = "." }
        pd   == IF ds = {} THEN Len(mant) + 1 ELSE CHOOSE i \in ds : \A j \in ds : i <= j
        ip   == SubSeq(mant, 1, pd - 1)
        fp   == SubSeq(mant, pd + 1, Len(mant))
        digits == ip \o fp
        AllDigits(d) == \A i \in DOMAIN d : d[i] \in DigitChars
        Value(d) ==
            LET val[i \in 0..Len(d)] ==
                    IF i = 0 THEN 0
                    ELSE 10 * val[i - 1] + (CHOOSE n \in 0..9 : ToString(n) = d[i])
            IN  val[Len(d)]
        Pow10(n) ==
            LET pw[i \in 0..n] == IF i = 0 THEN 1 ELSE 10 * pw[i - 1]
            IN  pw[n]
        wellFormed ==
            /\ digits # <<>> /\ AllDigits(digits)
            /\ es = {} \/ (expo # <<>> /\ AllDigits(expo))
        scale == (IF es = {} THEN 0 ELSE Value(expo)) - Len(fp)
        magnitude ==
            IF scale >= 0 THEN Value(digits) * Pow10(scale)
            ELSE Value(digits) \div Pow10(-scale)
    IN  IF Lower(body) \in { <<"i", "n", "f">>, <<"i", "n", "f", "i", "n", "i", "t", "y">> }
        THEN [kind |-> "inf", int |-> 0]
        ELSE IF Lower(body) = <<"n", "a", "n">> THEN [kind |-> "nan", int |-> 0]
        ELSE IF ~wellFormed THEN [kind |-> "error", int |-> 0]
        ELSE IF Value(digits) > 0 /\ Len(digits) + scale > MaxFloatExp + 1
        THEN [kind |-> "inf", int |-> 0]
        ELSE [kind |-> "finite", int |-> IF neg THEN -magnitude ELSE magnitude]

\* _safe_int(value): the integer it returns, or the exception that leaves it.
\* float() raises ValueError for text that is no number and int() raises
\* ValueError for nan, both caught; int() raises OverflowError for an infinity
SafeInt(cell) ==
    IF cell.isNone \/ cell.text = <<>> THEN [raises |-> "", value |-> 0]
    ELSE LET f == FloatToInt(StripText(RemoveCommas(cell.text)))
         IN  CASE f.kind \in {"error", "nan"} -> [raises |-> "", value |-> 0]
               [] f.kind = "inf" -> [raises |-> "OverflowError", value |-> 0]
               [] OTHER -> [raises |-> "", value |-> f.int]

\* the files and cell values the functions are applied to
InitCsv ==
    /\ useTurso = FALSE
    /\ posts = <<>>
    /\ snapshots = {}
    /\ dbLock = 0
    /\ txn = <<>>
    /\ calls = [c \in Callers |-> IdleFrame]
    /\ obs = [c \in Callers |-> NoObs]
    /\ trial \in [phase : {"csv"}, header : SUBSET HeaderCells,
                   path : [dir : Dirs, stem : Stems]]
                  \cup [phase : {"cell"}, cell : Cells]
    /\ cache = NoCache
    /\ uploads = 0
    /\ now = "2026-02"
    /\ ret = NoRet

CsvDetectPlatform ==
    /\ trial.phase = "csv"
    /\ ret' = [op |-> "detect_platform", args |-> <<trial.header, trial.path>>,
               value |-> DetectPlatform(trial.header, trial.path), flip |-> ~ret.flip]
    /\ UNCHANGED <<useTurso, posts, snapshots, dbLock, txn, calls, obs, trial, cache, uploads, now>>

CsvSafeInt ==
    /\ trial.phase = "cell"
    /\ ret' = [op |-> "_safe_int", args |-> <<trial.cell>>,
               value |-> SafeInt(trial.cell), flip |-> ~ret.flip]
    /\ UNCHANGED <<useTurso, posts, snapshots, dbLock, txn, calls, obs, trial, cache, uploads, now>>

NextCsv ==
    \/ CsvDetectPlatform
    \/ CsvSafeInt

SpecCsv == InitCsv /\ [][NextCsv]_vars

----------------------------------------------------------------------------
(* The sources of post dicts: what the CSV import, the dashboard sync      *)
(* (app.py) and the historical sync (sync_history.py) make of one          *)
(* publication before they hand it to insert_posts                         *)

\* [:200]
TextLimit == 200

\* a caption: the text itself, its length, and the text of its first 200 characters
Captions ==
    { [full |-> "a", len |-> 1, cut |-> "a"],
      [full |-> "long", len |-> 250, cut |-> "long[:200]"] }

\* caption[:200]
Truncate(caption) == IF caption.len > TextLimit THEN caption.cut ELSE caption.full

\* len() of a text built from a caption
TextLen(text) ==
    LET cap == CHOOSE cp \in Captions : text \in {cp.full, cp.cut}
    IN  IF text = cap.full THEN cap.len ELSE TextLimit

\* created_time.replace("+0000", "")
StripUtcOffset(date) ==
    IF date.rest = "-12T08:00:00+0000" THEN [date EXCEPT !.rest = "-12T08:00:00"] ELSE date

\* the post dict a source builds for the publication with this caption,
\* published at the instant the Graph API reports as ApiDate
SourcePost(source, caption) ==
    CASE source = "csv" ->      \* _parse_date: the naive ISO string; the text untruncated
           MkPost("prins", StripUtcOffset(ApiDate), caption.full, CsvProfile, 500)
      [] source = "dashboard" ->
           MkPost("prins", StripUtcOffset(ApiDate), Truncate(caption),
                  CHOOSE pr \in Profiles : pr # CsvProfile, 0)
      [] source = "history" ->
           MkPost("prins", ApiDate, Truncate(caption), CsvProfile, 500)

SourceUniverse ==
    [platforms |-> {"facebook"},
     pageArgs  |-> {NoPage},
     feed      |-> { SourcePost(source, caption) :
                        source \in {"csv", "dashboard", "history"}, caption \in Captions }]

SourceCall == Call(1, SourceUniverse, FALSE)
SourceLoopTop == LoopTop(1, SourceUniverse)

NextSource ==
    \/ SourceCall
    \/ SourceLoopTop
    \/ SeqSelect
    \/ SeqInsert
    \/ SeqUpdate
    \/ SeqReturn

SpecSource == Init /\ [][NextSource]_vars


----------------------------------------------------------------------------
(* The two branches of insert_posts side by side: the same list is given   *)
(* to the Turso branch, whose store is posts, and to the local branch,     *)
(* whose SQLite file is the mirror store trial.alt.  Both stores start     *)
(* from the same rows and the same snapshots; no statement fails.          *)

BranchFeed == BadUniverse.feed \cup BadUniverse.bad

RECURSIVE RunBatchUntilError(_, _, _, _)
\* `for p in posts: ...` up to the post whose metrics cannot be added
RunBatchUntilError(f, tbl, snaps, batch) ==
    IF batch = <<>> THEN [tbl |-> tbl, f |-> f, raised |-> FALSE]
    ELSE IF ~SkipPost(Head(batch), f.page) /\ Malformed(Head(batch))
    THEN [tbl |-> tbl, f |-> RaiseFrame(f), raised |-> TRUE]
    ELSE LET e == RunPost(f, tbl, snaps, Head(batch))
         IN  RunBatchUntilError(e.f, e.tbl, snaps, Tail(batch))

\* the Turso branch: every _turso_execute is a request of its own, so what
\* was written before an exception stays written
TursoInsertPosts(tbl, snaps, batch, platform, page) ==
    LET e == RunBatchUntilError(EntryFrame(platform, page, Len(tbl)), tbl, snaps, batch)
    IN  [tbl |-> e.tbl,
         ret |-> IF e.raised THEN <<"TypeError">> ELSE <<"return", ReturnFrame(e.f).inserted>>]

\* the local branch: one connection, conn.commit() after the loop, so an
\* exception in the loop leaves the file as it was
LocalInsertPosts(tbl, snaps, batch, platform, page) ==
    LET e == RunBatchUntilError(EntryFrame(platform, page, Len(tbl)), tbl, snaps, batch)
    IN  [tbl |-> IF e.raised THEN tbl ELSE e.tbl,
         ret |-> IF e.raised THEN <<"TypeError">> ELSE <<"return", ReturnFrame(e.f).inserted>>]

InitBranch ==
    /\ useTurso = TRUE
    /\ posts = <<>>
    /\ snapshots \in AlgSnapshots
    /\ dbLock = 0
    /\ txn = <<>>
    /\ calls = [c \in Callers |-> IdleFrame]
    /\ obs = [c \in Callers |-> NoObs]
    /\ trial \in [phase : {"drawn"}, S : SeedBatches, A : Batches(BranchFeed),
                   platform : {"facebook"}, page : {NoPage},
                   alt : {<<>>}, ret : {<<>>}, altRet : {<<>>}]
    /\ cache = NoCache
    /\ uploads = 0
    /\ now = "2026-02"
    /\ ret = NoRet

\* both stores receive the rows an earlier sync left
BranchSeed ==
    /\ trial.phase = "drawn"
    /\ LET r == InsertPosts(posts, snapshots, trial.S, trial.platform, trial.page)
       IN  /\ posts' = r.tbl
           /\ trial' = [trial EXCEPT !.phase = "seeded", !.alt = r.tbl]
    /\ cache' = ClearPostCaches(cache)
    /\ UNCHANGED <<useTurso, snapshots, dbLock, txn, calls, obs, uploads, now, ret>>

BranchTurso ==
    /\ trial.phase = "seeded"
    /\ LET r == TursoInsertPosts(posts, snapshots, trial.A, trial.platform, trial.page)
       IN  /\ posts' = r.tbl
           /\ trial' = [trial EXCEPT !.phase = "turso", !.ret = r.ret]
           /\ cache' = IF r.ret[1] = "return" THEN ClearPostCaches(cache) ELSE cache
    /\ UNCHANGED <<useTurso, snapshots, dbLock, txn, calls, obs, uploads, now, ret>>

BranchLocal ==
    /\ trial.phase = "turso"
    /\ LET r == LocalInsertPosts(trial.alt, snapshots, trial.A, trial.platform, trial.page)
       IN  trial' = [trial EXCEPT !.phase = "both", !.alt = r.tbl, !.altRet = r.ret]
    /\ UNCHANGED <<useTurso, posts, snapshots, dbLock, txn, calls, obs, cache, uploads, now, ret>>

NextBranch ==
    \/ BranchSeed
    \/ BranchTurso
    \/ BranchLocal

SpecBranch == InitBranch /\ [][NextBranch]_vars

----------------------------------------------------------------------------
(* Properties of the sequential specifications *)

RowOf(tbl, key) == tbl[CHOOSE i \in DOMAIN tbl : NaturalKey(tbl[i]) = key]

\* the posts table as caller c's connection sees it after the step
ViewAfter(c) == IF ~useTurso' /\ dbLock' = c THEN txn' ELSE posts'

CurKey(c) == PostKey(calls[c].platform, calls[c].cur, calls[c].page)

\* caller c takes a step on a post whose natural key is already stored
MeetsConflict(c) ==
    /\ calls[c].pc \in {"insert", "update"}
    /\ Conflicts(View(c), CurKey(c))
    /\ calls'[c] # calls[c]

\* C2: in every reachable state no two stored post rows (committed or inside
\* the open transaction) share the same (platform, page, date, text).
C2_UniqueNaturalKey ==
    \A tbl \in {posts, txn} : \A i, j \in DOMAIN tbl :
        i # j => NaturalKey(tbl[i]) # NaturalKey(tbl[j])

\* a call that created a row meets the same post again, in a labelled store
C2_Witness ==
    /\ calls[1].pc = "update" /\ calls[1].n = 2 /\ calls[1].inserted = 1
    /\ Len(View(1)) = 2
    /\ NaturalKey(View(1)[2]) = CurKey(1)
    /\ View(1)[1].theme = "Puppies"
    /\ snapshots # {}

C4_ConflictKeepsOtherFields ==
    [][\A c \in Callers : MeetsConflict(c) =>
         LET old == RowOf(View(c), CurKey(c))
             new == RowOf(ViewAfter(c), CurKey(c))
         IN  /\ new.likes = old.likes /\ new.comments = old.comments
             /\ new.shares = old.shares /\ new.clicks = old.clicks
             /\ new.engagement = old.engagement
             /\ new.engagement_rate = old.engagement_rate
             /\ new.theme = old.theme /\ new.campaign = old.campaign]_vars

\* the INSERT of a post with other likes and another rate was refused by a labelled row
C4_Witness ==
    /\ calls[1].pc = "update"
    /\ LET row == RowOf(View(1), CurKey(1))
           f == calls[1]
       IN  /\ row.theme = "Puppies" /\ row.campaign = "Voorjaar"
           /\ row.likes # f.cur.likes
           /\ row.engagement_rate #
                EngagementRate(f.cur.likes + f.cur.comments + f.cur.shares,
                               f.fcache[CacheKey(f.platform, f.cur, f.page)])

C9_PagelessPostSkipped ==
    [][/\ \A c \in Callers :
            LET f == calls[c]
                g == calls'[c]
            IN  (f.pc = "top" /\ g.n = f.n + 1 /\ g.cur.page = NoPage /\ g.page = NoPage)
                => /\ g.pc = "top" /\ g.inserted = f.inserted
                   /\ posts' = posts /\ txn' = txn
       /\ \A i \in DOMAIN posts' : posts'[i].page # NoPage
       /\ \A i \in DOMAIN txn' : txn'[i].page # NoPage]_vars

\* a dated post without page was skipped after the same call inserted another post
C9_Witness ==
    /\ calls[1].pc = "top" /\ calls[1].page = NoPage
    /\ calls[1].cur.page = NoPage /\ calls[1].cur.date # NoDate
    /\ calls[1].n = 2 /\ calls[1].inserted = 1
    /\ Len(View(1)) = calls[1].rows0 + 1

\* C10: every stored row has engagement = likes + comments + shares.
C10_EngagementInvariant ==
    \A tbl \in {posts, txn} : \A i \in DOMAIN tbl :
        tbl[i].engagement = tbl[i].likes + tbl[i].comments + tbl[i].shares

\* a labelled, merged row with clicks 100 and engagement 17
C10_Witness ==
    \E i \in DOMAIN posts :
        /\ posts[i].clicks = 100 /\ posts[i].engagement = 17
        /\ posts[i].impressions = 900 /\ posts[i].theme = "Puppies"
        /\ posts[i].engagement_rate > 0

\* caller c's INSERT created a row
Creates(c) ==
    /\ calls[c].pc = "insert" /\ calls'[c] # calls[c]
    /\ Len(ViewAfter(c)) = Len(View(c)) + 1

NewestRow(c) == ViewAfter(c)[Len(ViewAfter(c))]

\* the follower_snapshots key of a stored row: platform, page, date[:7]
RowSnapKey(row) == <<row.platform, row.page, row.date.ym>>

Abs(x) == IF x < 0 THEN -x ELSE x

\* C11: a row created while a snapshot with F > 0 followers exists for its
\* (platform, page, date[:7]) has engagement_rate = engagement / F * 100 to
\* the nearest hundredth.
C11_RateFromSnapshot ==
    [][\A c \in Callers : Creates(c) =>
         LET row == NewestRow(c)
             key == RowSnapKey(row)
         IN  (key \in SnapKeys(snapshots) /\ SnapFollowers(snapshots, key) > 0) =>
                 2 * Abs(row.engagement_rate * SnapFollowers(snapshots, key)
                         - row.engagement * 10000) <= SnapFollowers(snapshots, key)]_vars

\* engagement 17 against 2000 followers was stored as 0.85
C11_Witness ==
    /\ calls[1].pc = "top" /\ calls[1].inserted = 1
    /\ \E i \in DOMAIN View(1) :
         /\ View(1)[i].engagement = 17 /\ View(1)[i].engagement_rate = 85
         /\ RowSnapKey(View(1)[i]) \in SnapKeys(snapshots)
         /\ SnapFollowers(snapshots, RowSnapKey(View(1)[i])) = 2000

\* C12: a post whose (platform, page, month) has no snapshot is inserted and
\* counted like any other, with engagement_rate 0; the loop goes on.
C12_NoSnapshotRateZero ==
    [][\A c \in Callers :
         (/\ calls[c].pc = "insert" /\ calls'[c] # calls[c]
          /\ ~Conflicts(View(c), CurKey(c))
          /\ CacheKey(calls[c].platform, calls[c].cur, calls[c].page) \notin SnapKeys(snapshots))
         => /\ Len(ViewAfter(c)) = Len(View(c)) + 1
            /\ NaturalKey(NewestRow(c)) = CurKey(c)
            /\ NewestRow(c).engagement_rate = 0
            /\ calls'[c].inserted = calls[c].inserted + 1
            /\ calls'[c].pc = "top"]_vars

\* a February post was inserted while the ledger only knew March
C12_Witness ==
    /\ calls[1].pc = "top" /\ calls[1].inserted = 1 /\ Len(View(1)) = 1
    /\ snapshots # {}
    /\ RowSnapKey(View(1)[1]) \notin SnapKeys(snapshots)
    /\ View(1)[1].engagement = 17 /\ View(1)[1].engagement_rate = 0

\* C13: the engagement_rate of a stored row never changes, whatever is saved
\* in the ledger or inserted for the same natural key afterwards.
C13_RateFrozen ==
    [][\A c \in Callers : \A i \in DOMAIN View(c) :
         /\ i \in DOMAIN ViewAfter(c)
         /\ NaturalKey(ViewAfter(c)[i]) = NaturalKey(View(c)[i])
         /\ ViewAfter(c)[i].engagement_rate = View(c)[i].engagement_rate]_vars

\* a row stored at 1.70 against 1000 followers, merged since, while the ledger
\* now says 2000 for its month
C13_Witness ==
    \E i \in DOMAIN posts :
        /\ posts[i].engagement = 17 /\ posts[i].engagement_rate = 170
        /\ posts[i].impressions = 900
        /\ RowSnapKey(posts[i]) \in SnapKeys(snapshots)
        /\ SnapFollowers(snapshots, RowSnapKey(posts[i])) = 2000

\* the step is an update_post_labels for this id: only the posts table changes,
\* and in it only rows with this id
IsLabelStep(id) ==
    /\ UNCHANGED <<snapshots, uploads, dbLock, txn, calls>>
    /\ Len(posts') = Len(posts)
    /\ \A j \in DOMAIN posts : posts[j].id # id => posts'[j] = posts[j]

\* C14: theme and campaign of a stored row change only in an
\* update_post_labels step for the id of that row; no step of insert_posts,
\* save_follower_snapshot or log_upload changes them.
C14_LabelsOnlyByEdit ==
    [][\A c \in Callers : \A i \in DOMAIN View(c) :
         /\ i \in DOMAIN ViewAfter(c)
         /\ (\/ ViewAfter(c)[i].theme # View(c)[i].theme
             \/ ViewAfter(c)[i].campaign # View(c)[i].campaign)
            => IsLabelStep(View(c)[i].id)]_vars

\* a labelled row was merged into since, next to a row never labelled, with
\* a snapshot saved and an upload logged
C14_Witness ==
    /\ uploads = 1 /\ snapshots # {}
    /\ \E i, j \in DOMAIN posts :
         /\ posts[i].theme = "Puppies" /\ posts[i].campaign = "Voorjaar"
         /\ posts[i].likes = 10 /\ posts[i].impressions = 900
         /\ posts[j].theme = ""

----------------------------------------------------------------------------
(* Properties of the readers of the posts table (SpecRead, SpecFault, SpecStats) *)

\* the step is a call of this reader
IsRead(name) == ret' # ret /\ ret'.op = name

Matches(row, platform, page) ==
    /\ platform = "" \/ row.platform = platform
    /\ page = "" \/ row.page = page

\* C15: a get_posts call returns every stored row its filter matches with the
\* theme and campaign the row has in the store, that is those of the last
\* update_post_labels for its id, also when get_posts was called with the
\* same arguments before that update.
C15_NewLabelsReturned ==
    [][IsRead("posts") =>
         \A i \in DOMAIN posts :
             Matches(posts[i], ret'.args[1], ret'.args[2]) =>
                 \E r \in ret'.value :
                     /\ r.id = posts[i].id
                     /\ r.theme = posts[i].theme /\ r.campaign = posts[i].campaign]_vars

WithoutLabels(rows) == { [r EXCEPT !.theme = "", !.campaign = ""] : r \in rows }

\* C16: after an insert_posts call that created or merged rows has ended, by
\* return or by an exception, get_posts and get_monthly_stats return what the
\* stored rows give (labels aside), never what was cached before the call.
C16_ReadsSeeInsertedRows ==
    [][/\ IsRead("posts") =>
            WithoutLabels(ret'.value) =
                WithoutLabels(GetPostsQuery(posts, ret'.args[1], ret'.args[2]))
       /\ IsRead("stats") =>
            ret'.value = GetMonthlyStatsQuery(posts, ret'.args[1])]_vars

RowGroup(row) == <<row.platform, row.page, StrfMonth(row.date)>>

StatGroup(r) == <<r.platform, r.page, r.month>>

RECURSIVE FieldSum(_, _, _, _, _)
\* the sum of a field over the first n stored rows that match the filter and lie in group g
FieldSum(tbl, n, platform, g, field) ==
    IF n = 0 THEN 0
    ELSE FieldSum(tbl, n - 1, platform, g, field)
         + IF Matches(tbl[n], platform, "") /\ RowGroup(tbl[n]) = g THEN tbl[n][field] ELSE 0

RECURSIVE TotalPosts(_)
TotalPosts(stats) ==
    IF stats = {} THEN 0
    ELSE LET r == CHOOSE x \in stats : TRUE
         IN  r.total_posts + TotalPosts(stats \ {r})

\* C20: get_monthly_stats returns exactly one row per (platform, page, month)
\* among the stored posts matching the platform filter, with total_posts the
\* number of those posts and the totals the sums of their fields; the
\* total_posts add up to the number of matching posts.
C20_MonthlyStats ==
    [][IsRead("stats") =>
         LET stats == ret'.value
             platform == ret'.args[1]
             matching == { i \in DOMAIN posts : Matches(posts[i], platform, "") }
         IN  /\ \A i \in matching :
                   Cardinality({ r \in stats : StatGroup(r) = RowGroup(posts[i]) }) = 1
             /\ \A r \in stats :
                   /\ \E i \in matching : RowGroup(posts[i]) = StatGroup(r)
                   /\ r.total_posts =
                        Cardinality({ i \in matching : RowGroup(posts[i]) = StatGroup(r) })
                   /\ r.total_likes = FieldSum(posts, Len(posts), platform, StatGroup(r), "likes")
                   /\ r.total_comments = FieldSum(posts, Len(posts), platform, StatGroup(r), "comments")
                   /\ r.total_shares = FieldSum(posts, Len(posts), platform, StatGroup(r), "shares")
                   /\ r.total_engagement = FieldSum(posts, Len(posts), platform, StatGroup(r), "engagement")
                   /\ r.total_reach = FieldSum(posts, Len(posts), platform, StatGroup(r), "reach")
                   /\ r.total_impressions = FieldSum(posts, Len(posts), platform, StatGroup(r), "impressions")
             /\ TotalPosts(stats) = Cardinality(matching)]_vars

\* two February posts with likes 10 and 3 came back as one row of 2 posts and 13 likes
C20_Witness ==
    /\ ret.op = "stats" /\ Len(posts) = 2
    /\ \E r \in ret.value :
         /\ r.month = "2026-02" /\ r.total_posts = 2
         /\ r.total_likes = 13 /\ r.total_reach = 1300

----------------------------------------------------------------------------
(* Properties of the follower ledger (SpecLedger) *)

\* the step is a call of save_follower_snapshot
IsSave == ret' # ret /\ ret'.op = "save"

\* C17: the ledger holds at most one snapshot per (platform, page, month);
\* a save leaves its value as the followers of its key and every other
\* snapshot as it was, no other step changes the ledger, and saving the value
\* a key already has leaves the ledger as it is.
C17_LastWriteWins ==
    [][/\ \A r, q \in snapshots' : r.key = q.key => r = q
       /\ IsSave =>
            LET key == ret'.args[1]
                followers == ret'.args[2]
            IN  /\ [key |-> key, followers |-> followers] \in snapshots'
                /\ { r \in snapshots' : r.key # key } = { r \in snapshots : r.key # key }
                /\ [key |-> key, followers |-> followers] \in snapshots
                       => snapshots' = snapshots
       /\ ~IsSave => snapshots' = snapshots]_vars

\* the last save gave 2026-01 the value 2000, next to the 2025-11 snapshot of 1000
C17_Witness ==
    /\ ret.op = "save" /\ ret.args = << <<"facebook", "prins", "2026-01">>, 2000 >>
    /\ snapshots = { [key |-> <<"facebook", "prins", "2026-01">>, followers |-> 2000],
                     [key |-> <<"facebook", "prins", "2025-11">>, followers |-> 1000] }

\* C18: get_follower_count returns the followers the ledger holds for exactly
\* its (platform, page, month), None when that key was never saved; called
\* right after a save of its key it returns the saved value, also when an
\* older result for the key was cached before the save.
C18_CountIsLastSave ==
    [][IsRead("count") =>
         /\ ret'.value = IF \E r \in snapshots : r.key = ret'.args
                         THEN (CHOOSE r \in snapshots : r.key = ret'.args).followers
                         ELSE None
         /\ (ret.op = "save" /\ ret.args[1] = ret'.args) => ret'.value = ret.args[2]]_vars

\* 2000 is returned for 2026-01 while the snapshot of 2026-02 holds 1000
C18_Witness ==
    /\ ret = [op |-> "count", args |-> <<"facebook", "prins", "2026-01">>, value |-> 2000,
              flip |-> ret.flip]
    /\ [key |-> <<"facebook", "prins", "2026-02">>, followers |-> 1000] \in snapshots

\* C19: get_follower_previous_month returns the followers of the snapshot of
\* its (platform, page) with the greatest month strictly before the current
\* calendar month, and None when there is none; never the current month's.
C19_PreviousMonth ==
    [][IsRead("prev") =>
         LET earlier == { r \in snapshots' :
                            /\ r.key[1] = ret'.args[1] /\ r.key[2] = ret'.args[2]
                            /\ MonthIdx(r.key[3]) < MonthIdx(now') }
         IN  /\ earlier = {} => ret'.value = None
             /\ earlier # {} =>
                   \E r \in earlier :
                       /\ \A q \in earlier : MonthIdx(q.key[3]) <= MonthIdx(r.key[3])
                       /\ ret'.value = r.followers]_vars

----------------------------------------------------------------------------
(* Properties of insert_posts as a function (SpecAlg) *)

Done == trial.phase = "second"

\* the natural keys of the posts of a batch that pass the skip guards
BatchKeys(batch) ==
    { PostKey(trial.platform, batch[i], trial.page) :
        i \in { j \in DOMAIN batch : ~SkipPost(batch[j], trial.page) } }

RowsWithKey(tbl, key) == { i \in DOMAIN tbl : NaturalKey(tbl[i]) = key }

\* a row without its id (created_at is not part of the rows)
Strip(row) == [row EXCEPT !.id = 0]

StoredPosts(tbl) == { Strip(tbl[i]) : i \in DOMAIN tbl }

ZeroAndNonZero(p, q) ==
    /\ ~SkipPost(p, trial.page)
    /\ [p EXCEPT !.reach = 0] = [q EXCEPT !.reach = 0]
    /\ p.reach = 0 /\ q.reach > 0

----------------------------------------------------------------------------
(* Properties of concurrent insert_posts calls (SpecConc) *)

\* both callers made their call, the calls overlapped, and both have ended
BothEnded ==
    \A c \in Callers : calls[c].pc = "idle" /\ obs[c].called /\ obs[c].overlap

\* the natural keys both calls sent an INSERT for
SharedKeys == obs[1].tried \cap obs[2].tried

Counted(key) == { c \in Callers : key \in obs[c].created }

----------------------------------------------------------------------------
(* Properties of the month a post is grouped under (SpecStats) *)

\* C21: get_monthly_stats groups every stored post under the first seven
\* characters of its stored date, the month insert_posts used for its
\* follower lookup, whatever source wrote the date string.
C21_GroupMonthIsDatePrefix ==
    [][IsRead("stats") =>
         \A i \in DOMAIN posts :
             Matches(posts[i], ret'.args[1], "") =>
                 \E r \in ret'.value :
                     /\ r.platform = posts[i].platform /\ r.page = posts[i].page
                     /\ r.month = PostMonth(posts[i])]_vars

----------------------------------------------------------------------------
(* Properties of insert_posts under failures (SpecFault, SpecBad) *)

\* C22: a post whose natural key is not stored leaves the INSERT statement
\* only as a stored row or by an exception that ends the call: a failure of
\* the store is never taken for a conflict and the post is never dropped
\* while the call goes on.
C22_FailurePropagates ==
    [][\A c \in Callers :
         (/\ calls[c].pc = "insert" /\ calls'[c] # calls[c]
          /\ ~Conflicts(View(c), CurKey(c)))
         => \/ Conflicts(ViewAfter(c), CurKey(c))
            \/ calls'[c] = RaiseFrame(calls[c])]_vars

\* C23: a call of insert_posts ends at the head of its loop only by returning
\* the number of rows it created, never by the exception of a malformed post:
\* such a post is skipped and the posts before and after it are stored and
\* counted.
C23_MalformedPostSkipped ==
    [][\A c \in Callers :
         (calls[c].pc = "top" /\ calls'[c].pc = "idle")
         => /\ ret'.op # "TypeError"
            /\ calls'[c].inserted = calls[c].inserted
            /\ Len(posts') = calls[c].rows0 + calls[c].inserted]_vars

----------------------------------------------------------------------------
(* Properties of the CSV import (SpecCsv) *)

HasMarker(header, markers) == \E h \in header : h.name \in markers

\* the file name holds ig, insta or instagram, in either case
NameHint(stem) ==
    \E sub \in { <<"i", "g">>, <<"i", "n", "s", "t", "a">>,
                 <<"i", "n", "s", "t", "a", "g", "r", "a", "m">> } :
        \E i \in 1..Len(stem) :
            /\ i + Len(sub) - 1 <= Len(stem)
            /\ \A k \in 1..Len(sub) :
                 stem[i + k - 1] = sub[k] \/ (sub[k] = "i" /\ stem[i + k - 1] = "I")
                                          \/ (sub[k] = "g" /\ stem[i + k - 1] = "G")

\* C24: detect_platform gives instagram when the header has an Instagram-only
\* column, whatever else it has and whatever the file is called; else
\* facebook when it has a Facebook-only column, whatever the file is called;
\* else instagram when the file name holds ig, insta or instagram; else
\* facebook.
C24_DetectPlatform ==
    ret.op = "detect_platform" =>
        LET header == ret.args[1]
            stem == ret.args[2].stem
            ig == HasMarker(header, {"Vind-ik-leuks", "Media type"})
            fb == HasMarker(header, {"Deelacties", "Berichttype", "Totaal aantal klikken"})
        IN  /\ ig => ret.value = "instagram"
            /\ (~ig /\ fb) => ret.value = "facebook"
            /\ (~ig /\ ~fb /\ NameHint(stem)) => ret.value = "instagram"
            /\ (~ig /\ ~fb /\ ~NameHint(stem)) => ret.value = "facebook"

\* a header with markers of both platforms in a file called fb is instagram
C24_Witness ==
    /\ ret.op = "detect_platform" /\ ret.value = "instagram"
    /\ ret.args[2].stem = <<"f", "b">>
    /\ \E h, g \in ret.args[1] : h.name = "Vind-ik-leuks" /\ g.name = "Deelacties"

\* C25: _safe_int never raises: None, the empty text and text that is not a
\* valid number, an infinite or overflowing one included, give 0, and a
\* number written with thousands separators gives its integer value.
C25_SafeIntNeverRaises ==
    ret.op = "_safe_int" =>
        LET cell == ret.args[1]
        IN  /\ ret.value.raises = ""
            /\ (cell.isNone \/ cell.text = <<>>) => ret.value.value = 0
            /\ cell.text \in { <<"a", "b", "c">>, <<"i", "n", "f">>, <<"-", "I", "n", "f">>,
                               <<"1", "e", "9", "9", "9">>, <<"n", "a", "n">> }
                   => ret.value.value = 0
            /\ cell.text = <<"1", ",", "2", "3", "4">> => ret.value.value = 1234

----------------------------------------------------------------------------
(* Properties of the rows the sources leave in the store (SpecSource) *)

\* C26: every stored post row has a text of at most 200 characters, whichever
\* source supplied the post.
C26_TextAtMost200 ==
    \A c \in Callers : \A i \in DOMAIN View(c) : TextLen(View(c)[i].text) <= 200

\* the instant a stored date string denotes, for the strings of the publication
InstantOf(date) ==
    IF date.ym = "2026-02"
       /\ date.rest \in {"-12T08:00:00+0000", "-12T08:00:00", "-12T08:00:00+00:00"}
    THEN "2026-02-12T08:00:00Z"
    ELSE "other"

\* C28: one publication instant is stored as one date string by every source,
\* so that a post ingested through two sources is one stored row: no two rows
\* of one platform and page have the same text and the same instant.
C28_OneRowPerPublication ==
    \A i, j \in DOMAIN posts :
        (/\ posts[i].platform = posts[j].platform /\ posts[i].page = posts[j].page
         /\ posts[i].text = posts[j].text
         /\ InstantOf(posts[i].date) = InstantOf(posts[j].date))
        => i = j

----------------------------------------------------------------------------
(* Properties of the follower cache of insert_posts (Spec) *)

\* the followers the ledger holds now for the month of a stored row
LedgerFollowers(row) ==
    IF RowSnapKey(row) \in SnapKeys(snapshots)
    THEN SnapFollowers(snapshots, RowSnapKey(row)) ELSE 0

\* C27: _follower_cache lives for one call of insert_posts: a call starts
\* with an empty cache, and a row it creates gets its rate from the snapshot
\* the ledger holds during that call, also when an earlier call looked the
\* same month up before the snapshot was saved or replaced.
C27_CachePerCall ==
    [][\A c \in Callers :
         /\ (calls[c].pc = "idle" /\ calls'[c].pc # "idle") => calls'[c].fcache = <<>>
         /\ Creates(c) =>
              NewestRow(c).engagement_rate =
                  EngagementRate(NewestRow(c).engagement, LedgerFollowers(NewestRow(c)))]_vars

\* two rows of the same month and the same engagement, the first stored by a
\* call that looked 1000 followers up, the second by a later call after the
\* snapshot was replaced by 2000
C27_Witness ==
    /\ Len(posts) = 2
    /\ calls[1].pc = "idle" /\ calls[1].inserted = 1
    /\ RowSnapKey(posts[1]) = RowSnapKey(posts[2])
    /\ posts[1].engagement = 17 /\ posts[1].engagement_rate = 170
    /\ posts[2].engagement = 17 /\ posts[2].engagement_rate = 85
    /\ LedgerFollowers(posts[2]) = 2000

----------------------------------------------------------------------------
(* Properties of the stored metrics under the four writers (SpecWrite) *)

\* every row of tbl is still in tbl2 at its place, under its key, and a
\* non-zero reach or impressions of it is still non-zero
KeepsRowsAndMetrics(tbl, tbl2) ==
    \A i \in DOMAIN tbl :
        /\ i \in DOMAIN tbl2
        /\ tbl2[i].id = tbl[i].id
        /\ NaturalKey(tbl2[i]) = NaturalKey(tbl[i])
        /\ tbl[i].reach # 0 => tbl2[i].reach # 0
        /\ tbl[i].impressions # 0 => tbl2[i].impressions # 0

\* C29: no step of insert_posts, update_post_labels, save_follower_snapshot
\* or log_upload deletes a post row, and a stored reach (impressions) that is
\* non-zero stays non-zero: re-ingesting the post with reach 0 (views 0)
\* never resets it.
C29_NonZeroStays ==
    [][/\ KeepsRowsAndMetrics(posts, posts')
       /\ \A c \in Callers : KeepsRowsAndMetrics(View(c), ViewAfter(c))]_vars

\* a call that only merged: the row stored with reach 500 met the report with
\* reach 0 and views 900, and holds reach 500 next to impressions 900
C29_Witness ==
    /\ calls[1].pc = "top" /\ calls[1].n >= 1 /\ calls[1].inserted = 0
    /\ calls[1].rows0 >= 1
    /\ \E i \in DOMAIN View(1) :
         /\ i <= calls[1].rows0
         /\ View(1)[i].reach = 500 /\ View(1)[i].impressions = 900
         /\ View(1)[i].clicks = 100

----------------------------------------------------------------------------
(* Properties of the two branches of insert_posts (SpecBranch) *)

\* C30: when no statement fails, the Turso branch and the local SQLite branch
\* of insert_posts, started from the same stored posts and snapshots on the
\* same list, leave the same stored rows and end the same way with the same
\* count.
C30_BranchesEquivalent ==
    trial.phase = "both" => posts = trial.alt /\ trial.ret = trial.altRet

====
